---- MODULE Spec2Model ----
(***************************************************************************)
(* Model of scripts/keycloak_bootstrap.py: the sequential bootstrap of a   *)
(* Keycloak realm (realm, default roles, two clients, users, service       *)
(* account role) through the Keycloak Admin REST API.                      *)
(*                                                                         *)
(* The program is modelled request by request: every HTTP request the      *)
(* script sends is one action, so that the answers of the service, the     *)
(* requests of other actors and an abort can fall between two requests.    *)
(* The service is the environment of the program: it keeps realms, roles,  *)
(* clients and users and answers each request.                             *)
(***************************************************************************)
EXTENDS Integers, Sequences, FiniteSets, TLC

(***************************************************************************)
(* Strings.  A string is a sequence of atoms; an atom is one of the        *)
(* delimiter characters ":" and ",", the blank " ", or a word (a run of    *)
(* characters that holds none of the three).                               *)
(***************************************************************************)
Colon == ":"
Comma == ","
Blank == " "

RECURSIVE Join(_, _)
\* sep.join(parts)
Join(parts, sep) ==
    IF Len(parts) = 0 THEN << >>
    ELSE IF Len(parts) = 1 THEN parts[1]
    ELSE parts[1] \o << sep >> \o Join(Tail(parts), sep)

\* The positions of sep in s, with the position before s and the one after it
Cuts(s, sep) == { 0, Len(s) + 1 } \cup { k \in 1..Len(s) : s[k] = sep }

\* The n-th cut of s, counted from 0
Cut(s, sep, n) ==
    CHOOSE k \in Cuts(s, sep) : Cardinality({ m \in Cuts(s, sep) : m < k }) = n

\* s.split(sep): the pieces between two cuts, so always at least one piece, and
\* the empty pieces are kept
Split(s, sep) ==
    [n \in 1..(Cardinality(Cuts(s, sep)) - 1) |->
        SubSeq(s, Cut(s, sep, n - 1) + 1, Cut(s, sep, n) - 1)]

\* The call of strip() at line 93 left out
Strip_Nothing(s) == s

\* s.strip(): the blanks at both ends removed
Strip(s) ==
    LET inked == { k \in 1..Len(s) : s[k] # Blank }
    IN  IF inked = {} THEN << >>
        ELSE SubSeq(s, CHOOSE k \in inked : \A m \in inked : k <= m,
                       CHOOSE k \in inked : \A m \in inked : k >= m)

NonEmpty(s) == s # << >>

\* [role.strip() for role in pieces if role.strip()]
StrippedNonEmpty(pieces) ==
    SelectSeq([n \in DOMAIN pieces |-> Strip(pieces[n])], NonEmpty)

\* The one element of a singleton set
The(set) == CHOOSE x \in set : TRUE

\* ":".join(parts[2:]).split(","), stripped and filtered (lines 92-93); each
\* intermediate value is computed once
RolesOf(spec) ==
    The({ StrippedNonEmpty(pieces) :
            pieces \in { Split(roles_raw, Comma) :
              roles_raw \in { Join(SubSeq(parts, 3, Len(parts)), Colon) :
                parts \in { Split(spec, Colon) } } } })

\* The check of line 94 left out
SpecIsValid_ThreeParts(spec) == Len(Split(spec, Colon)) >= 3

\* The checks of lines 88 and 94: the spec has three parts, and a username, a
\* password and a role
SpecIsValid(spec) ==
    /\ Len(Split(spec, Colon)) >= 3
    /\ Split(spec, Colon)[1] # << >>
    /\ Split(spec, Colon)[2] # << >>
    /\ RolesOf(spec) # << >>

\* The UserSpec one iteration of the loop of parse_user_specs appends (line 98)
UserSpec(spec) ==
    [username |-> Split(spec, Colon)[1],
     password |-> Split(spec, Colon)[2],
     roles    |-> RolesOf(spec)]

\* raised: a KeycloakBootstrapError left the loop (at the first bad spec, and
\* then nothing is returned); users: the list returned, in input order
parse_user_specs(raw_specs) ==
    IF \E n \in DOMAIN raw_specs : ~SpecIsValid(raw_specs[n])
    THEN [raised |-> TRUE, users |-> << >>]
    ELSE [raised |-> FALSE, users |-> [n \in DOMAIN raw_specs |-> UserSpec(raw_specs[n])]]

(***************************************************************************)
(* Names.  All names are strings in the sense above.  Identifiers, the     *)
(* bearer token and the client secret are opaque values generated by the   *)
(* service: positive integers here, 0 for None or the empty string.        *)
(***************************************************************************)
Realm            == << "statechecker" >>
FrontendClientId == << "statechecker-frontend" >>
BackendClientId  == << "statechecker-backend" >>

StatecheckerRead  == << "statechecker", ":", "read" >>
StatecheckerAdmin == << "statechecker", ":", "admin" >>
\* GRANULAR_ROLES.keys(), in the order of the dict literal
DEFAULT_ROLES == << StatecheckerRead, StatecheckerAdmin >>

Ghost  == << "ghost" >>
Custom == << "custom" >>

\* --user values
AdminSpec   == << "admin", ":", "admin", ":", "statechecker", ":", "admin" >>
AliceSpec   == << "alice", ":", "secret", ":", "statechecker", ":", "read", ",", " ", "ghost" >>
CarolSpec   == << "carol", ":", "pw", ":", "ghost" >>
BobShort    == << "bob", ":", "pw" >>
BobNoPw     == << "bob", ":", ":", "admin" >>

\* The bounds of the model
MaxRuns   == 2
MaxFaults == 1
MaxOther  == 1
MaxLen    == 7

\* The atoms of the strings given to parse_user_specs, and the strings
Atoms == { Colon, Comma, Blank, "a", "b" }
Strings == UNION { [1..k -> Atoms] : k \in 0..MaxLen }

\* The lists given to parse_user_specs: every string alone, and the pairs of
\* some --user values
ParseArgs ==
    { << s >> : s \in Strings }
    \cup { << s, t >> : s, t \in { AdminSpec, AliceSpec, BobShort, BobNoPw } }

\* The command lines of the model: args.user, args.role and
\* args.assign_service_account_role
UserArgs == { << >>, << AdminSpec >>, << AliceSpec >>, << CarolSpec >>,
              << AdminSpec, AliceSpec >>, << AdminSpec, BobShort >>, << BobNoPw >> }
RoleArgs == { << >>, << Custom >> }
SaRoleArgs == { StatecheckerAdmin, Ghost, << >> }

Range(f) == { f[k] : k \in DOMAIN f }

RECURSIVE SelectFirst(_, _)
\* The first element of a list with the given key, as the list of 0 or 1 elements
SelectFirst(list, key) ==
    IF Len(list) = 0 THEN << >>
    ELSE IF list[1].key = key THEN << list[1] >>
    ELSE SelectFirst(Tail(list), key)

\* How many elements of a list of names are the given name
Count(list, name) == Cardinality({ k \in DOMAIN list : list[k] = name })

(***************************************************************************)
(* build_client_specs: the two flags of each payload the service acts on   *)
(***************************************************************************)
build_client_specs ==
    [frontend |-> [client_id |-> FrontendClientId,
                   publicClient |-> TRUE, serviceAccountsEnabled |-> FALSE],
     backend  |-> [client_id |-> BackendClientId,
                   publicClient |-> FALSE, serviceAccountsEnabled |-> TRUE]]

(***************************************************************************)
(* The identity service (Keycloak admin REST API).  kc is its state:       *)
(*   realms   the realm names, in creation order                           *)
(*   roles    the realm roles of Realm, in creation order                  *)
(*   clients  records [key (the clientId), id, sa, secret]                 *)
(*   users    records [key (the username), id, password, roles, enabled,   *)
(*            emailVerified]                                               *)
(*   nextId   the next identifier the service hands out                    *)
(* Each operator below is the answer of the service to one request, and    *)
(* for a request that changes something the state after it.  An answer is  *)
(* [status, found, val]: the HTTP status, whether a list answer holds an   *)
(* element, and the id / token / secret of the body (0: the field is       *)
(* missing).                                                               *)
(***************************************************************************)
Ans(status, found, val) == [status |-> status, found |-> found, val |-> val]

NoPassword == << >>

Fresh == [realms |-> << >>, roles |-> << >>, clients |-> << >>, users |-> << >>, nextId |-> 1]

ServiceAccountName(client_id) == << "service-account" >> \o client_id

\* A service on which an operator created the realm and both clients by hand
PreClients ==
    [realms  |-> << Realm >>,
     roles   |-> << >>,
     clients |-> << [key |-> FrontendClientId, id |-> 1, sa |-> FALSE, secret |-> 0],
                    [key |-> BackendClientId, id |-> 2, sa |-> TRUE, secret |-> 2] >>,
     users   |-> << [key |-> ServiceAccountName(BackendClientId), id |-> 3,
                     password |-> NoPassword, roles |-> {},
                     enabled |-> TRUE, emailVerified |-> FALSE] >>,
     nextId  |-> 4]

\* A service that holds the realm and a disabled account admin with another password
PreUser ==
    [realms  |-> << Realm >>,
     roles   |-> << >>,
     clients |-> << >>,
     users   |-> << [key |-> << "admin" >>, id |-> 1,
                     password |-> << "old" >>, roles |-> {},
                     enabled |-> FALSE, emailVerified |-> FALSE] >>,
     nextId  |-> 2]

InitialServices == { Fresh, PreClients, PreUser }

RealmExists(k, realm) == \E n \in DOMAIN k.realms : k.realms[n] = realm
RoleExists(k, role)   == \E n \in DOMAIN k.roles : k.roles[n] = role
ClientById(k, id)     == { c \in Range(k.clients) : c.id = id }
UserById(k, id)       == { x \in Range(k.users) : x.id = id }

\* POST /realms/master/protocol/openid-connect/token
KcToken == Ans(200, FALSE, 1)

\* GET /admin/realms/{realm}
KcGetRealm(k, realm) == Ans(IF RealmExists(k, realm) THEN 200 ELSE 404, FALSE, 0)

\* POST /admin/realms
KcPostRealm(k, realm) ==
    IF RealmExists(k, realm) THEN [ans |-> Ans(409, FALSE, 0), kc |-> k]
    ELSE [ans |-> Ans(201, FALSE, 0), kc |-> [k EXCEPT !.realms = Append(@, realm)]]

\* GET /admin/realms/{realm}/roles/{role}
KcGetRole(k, realm, role) ==
    Ans(IF RealmExists(k, realm) /\ RoleExists(k, role) THEN 200 ELSE 404, FALSE, 0)

\* POST /admin/realms/{realm}/roles
KcPostRole(k, realm, role) ==
    IF ~RealmExists(k, realm) THEN [ans |-> Ans(404, FALSE, 0), kc |-> k]
    ELSE IF RoleExists(k, role) THEN [ans |-> Ans(409, FALSE, 0), kc |-> k]
    ELSE [ans |-> Ans(201, FALSE, 0), kc |-> [k EXCEPT !.roles = Append(@, role)]]

\* GET /admin/realms/{realm}/clients?clientId=...
KcGetClients(k, realm, client_id) ==
    IF ~RealmExists(k, realm) THEN Ans(404, FALSE, 0)
    ELSE LET results == SelectFirst(k.clients, client_id)
         IN  IF results = << >> THEN Ans(200, FALSE, 0) ELSE Ans(200, TRUE, results[1].id)

\* POST /admin/realms/{realm}/clients: a confidential client gets a secret, a
\* client with service accounts enabled gets its service-account user
KcPostClient(k, realm, payload) ==
    IF ~RealmExists(k, realm) THEN [ans |-> Ans(404, FALSE, 0), kc |-> k]
    ELSE IF SelectFirst(k.clients, payload.client_id) # << >>
    THEN [ans |-> Ans(409, FALSE, 0), kc |-> k]
    ELSE LET id == k.nextId
             c  == [key |-> payload.client_id, id |-> id,
                    sa |-> payload.serviceAccountsEnabled,
                    secret |-> IF payload.publicClient THEN 0 ELSE id]
             sa == [key |-> ServiceAccountName(payload.client_id), id |-> id + 1,
                    password |-> NoPassword, roles |-> {},
                    enabled |-> TRUE, emailVerified |-> FALSE]
         IN  [ans |-> Ans(201, FALSE, 0),
              kc  |-> IF payload.serviceAccountsEnabled
                      THEN [k EXCEPT !.clients = Append(@, c), !.users = Append(@, sa),
                                     !.nextId = id + 2]
                      ELSE [k EXCEPT !.clients = Append(@, c), !.nextId = id + 1]]

\* GET /admin/realms/{realm}/clients/{uuid}/client-secret
KcGetSecret(k, realm, uuid) ==
    IF ~RealmExists(k, realm) \/ ClientById(k, uuid) = {} THEN Ans(404, FALSE, 0)
    ELSE Ans(200, FALSE, (CHOOSE c \in ClientById(k, uuid) : TRUE).secret)

\* GET /admin/realms/{realm}/users?username=...
KcGetUsers(k, realm, username) ==
    IF ~RealmExists(k, realm) THEN Ans(404, FALSE, 0)
    ELSE LET results == SelectFirst(k.users, username)
         IN  IF results = << >> THEN Ans(200, FALSE, 0) ELSE Ans(200, TRUE, results[1].id)

\* POST /admin/realms/{realm}/users with {username, enabled: true, emailVerified: true}
KcPostUser(k, realm, username) ==
    IF ~RealmExists(k, realm) THEN [ans |-> Ans(404, FALSE, 0), kc |-> k]
    ELSE IF SelectFirst(k.users, username) # << >> THEN [ans |-> Ans(409, FALSE, 0), kc |-> k]
    ELSE [ans |-> Ans(201, FALSE, 0),
          kc  |-> [k EXCEPT !.users = Append(@, [key |-> username, id |-> k.nextId,
                                                 password |-> NoPassword, roles |-> {},
                                                 enabled |-> TRUE, emailVerified |-> TRUE]),
                            !.nextId = @ + 1]]

\* PUT /admin/realms/{realm}/users/{id}/reset-password
KcPutPassword(k, realm, id, password) ==
    IF ~RealmExists(k, realm) \/ UserById(k, id) = {} THEN [ans |-> Ans(404, FALSE, 0), kc |-> k]
    ELSE [ans |-> Ans(204, FALSE, 0),
          kc  |-> [k EXCEPT !.users =
                      [n \in DOMAIN @ |-> IF @[n].id = id
                                          THEN [@[n] EXCEPT !.password = password]
                                          ELSE @[n]]]]

\* POST /admin/realms/{realm}/users/{id}/role-mappings/realm
KcPostRoleMappings(k, realm, id, role_reps) ==
    IF ~RealmExists(k, realm) \/ UserById(k, id) = {} THEN [ans |-> Ans(404, FALSE, 0), kc |-> k]
    ELSE IF \E r \in Range(role_reps) : ~RoleExists(k, r)
    THEN [ans |-> Ans(404, FALSE, 0), kc |-> k]
    ELSE [ans |-> Ans(204, FALSE, 0),
          kc  |-> [k EXCEPT !.users =
                      [n \in DOMAIN @ |-> IF @[n].id = id
                                          THEN [@[n] EXCEPT !.roles = @ \cup Range(role_reps)]
                                          ELSE @[n]]]]

\* GET /admin/realms/{realm}/clients/{uuid}/service-account-user
KcGetServiceAccountUser(k, realm, uuid) ==
    IF ~RealmExists(k, realm) \/ ClientById(k, uuid) = {} THEN Ans(404, FALSE, 0)
    ELSE LET c == CHOOSE c \in ClientById(k, uuid) : TRUE
             results == SelectFirst(k.users, ServiceAccountName(c.key))
         IN  IF ~c.sa \/ results = << >> THEN Ans(404, FALSE, 0)
             ELSE Ans(200, FALSE, results[1].id)

(***************************************************************************)
(* The program state.                                                      *)
(*   args        the parsed command line, fixed for all runs               *)
(*   run         the number of the current run of the script               *)
(*   local       the locals of run_bootstrap and of the function it is in, *)
(*               with pc, the request the script sends next                *)
(*   log         the requests of the current run with their answers        *)
(*   printed     what the current run printed                              *)
(*   kc          the state of the service; kc0: at the start of the run    *)
(*   past        one record per finished run                               *)
(*   faultsLeft  how many more requests the service may answer with an     *)
(*               error status or a body without the expected field         *)
(*   otherLeft   how many more requests another client of the service may  *)
(*               send                                                      *)
(***************************************************************************)
VARIABLES args, run, local, log, printed, kc, kc0, past, faultsLeft, otherLeft

vars == << args, run, local, log, printed, kc, kc0, past, faultsLeft, otherLeft >>

pc == local.pc

\* The locals at the start of a run
InitLocal ==
    [pc |-> "main", token |-> 0, users |-> << >>, user_roles |-> << >>,
     i |-> 0, which |-> "frontend",
     client_uuid |-> [w \in {"frontend", "backend"} |-> 0],
     backend_secret |-> 0, u |-> 0, user_id |-> 0,
     assign_for |-> "user", roles_list |-> << >>, j |-> 0,
     role_reps |-> << >>, missing_roles |-> << >>]

\* The answers a request can get: the one of the service, or a fault, which is
\* an error status, a body that lacks the id, token or secret, or an empty
\* list where the service holds a match
Answers(truth) ==
    { truth }
    \cup (IF faultsLeft > 0
          THEN { Ans(500, FALSE, 0) }
               \cup (IF truth.status = 200 /\ truth.val # 0
                     THEN { Ans(200, truth.found, 0) } ELSE {})
               \cup (IF truth.status = 200 /\ truth.found
                     THEN { Ans(200, FALSE, 0) } ELSE {})
          ELSE {})

\* The answers to the lookup of ensure_realm, the one request for which the
\* script tells the error status 400 from the others (line 188)
AnswersToRealmLookup(truth) ==
    Answers(truth) \cup (IF faultsLeft > 0 THEN { Ans(400, FALSE, 0) } ELSE {})

Request(kind, name, id, body) == [kind |-> kind, name |-> name, id |-> id, body |-> body]

\* request_with_token (and requests.post of get_admin_token): one request is
\* sent and answered by a; a faulty answer leaves the service as it is
Send(req, truth, kcAfter, a) ==
    /\ log' = Append(log, [kind |-> req.kind, name |-> req.name, id |-> req.id,
                           body |-> req.body, status |-> a.status, found |-> a.found,
                           fault |-> a # truth, token |-> local.token])
    /\ kc' = IF a = truth THEN kcAfter ELSE kc
    /\ faultsLeft' = IF a = truth THEN faultsLeft ELSE faultsLeft - 1

(***************************************************************************)
(* The decisions the script takes on an answer                             *)
(***************************************************************************)
\* get_admin_token, lines 128-135
TokenOutcome(a) ==
    IF a.status # 200 THEN "raise" ELSE IF a.val = 0 THEN "raise" ELSE "ok"

\* The early return of line 187 left out
RealmLookupOutcome_NoReturn(status) ==
    IF status \notin {200, 404, 400} THEN "raise" ELSE "create"

\* ensure_realm, lines 186-191
RealmLookupOutcome(status) ==
    IF status = 200 THEN "return"
    ELSE IF status \notin {404, 400} THEN "raise"
    ELSE "create"

\* ensure_realm, lines 202-205
RealmCreateOutcome(status) == IF status \notin {201, 204} THEN "raise" ELSE "ok"

\* The status of a create taken for the status of a lookup
role_exists_WrongStatus(status) == status = 204

\* role_exists, line 235
role_exists(status) == status = 200

\* The branch of line 272 left out: a conflict is an error like any other
RoleCreateOutcome_NoConflict(status) ==
    IF status \in {201, 204} THEN "created" ELSE "raise"

\* The raise of line 275 left out
RoleCreateOutcome_NoRaise(status) ==
    IF status = 409 THEN "conflict" ELSE "created"

\* ensure_roles, lines 269-277
RoleCreateOutcome(status) ==
    IF status \in {201, 204} THEN "created"
    ELSE IF status = 409 THEN "conflict"
    ELSE "raise"

\* The status of a create expected at line 300
resolve_client_id_Expects201(a) ==
    IF a.status # 201 THEN 0 ELSE IF ~a.found THEN 0 ELSE a.val

\* The test of line 303 inverted
resolve_client_id_Inverted(a) ==
    IF a.status # 200 THEN 0 ELSE IF a.found THEN 0 ELSE a.val

\* resolve_client_id, lines 300-305: the UUID, 0 for None
resolve_client_id(a) ==
    IF a.status # 200 THEN 0 ELSE IF ~a.found THEN 0 ELSE a.val

\* ensure_client, lines 335-338
ClientCreateOutcome(status) == IF status \notin {201, 204} THEN "raise" ELSE "ok"

\* The check of line 373 left out
SecretOutcome_ValueUnchecked(a) ==
    IF a.status # 200 THEN "raise" ELSE "ok"

\* get_client_secret, lines 368-375
SecretOutcome(a) ==
    IF a.status # 200 THEN "raise" ELSE IF a.val = 0 THEN "raise" ELSE "ok"

\* An existing user is never taken over
UserFound_Never(a) == FALSE

\* The test of response.json() at lines 398 and 421 inverted
UserFound_Inverted(a) == a.status = 200 /\ ~a.found

\* ensure_user, lines 398 and 421
UserFound(a) == a.status = 200 /\ a.found

\* ensure_user, lines 409-412
UserCreateOutcome(status) == IF status \notin {201, 204} THEN "raise" ELSE "ok"

\* set_user_password, lines 448-451
PasswordOutcome(status) == IF status \notin {204} THEN "raise" ELSE "ok"

\* The status check of line 479 left out
RoleFetched_Always(status) == TRUE

\* get_role_representations, lines 479-486, called with skip_missing=True
RoleFetched(status) == status = 200

\* 200 expected where the service answers 204
MappingOutcome_Expect200(status) == IF status \notin {200} THEN "raise" ELSE "ok"

\* assign_realm_roles, lines 523-526
MappingOutcome(status) == IF status \notin {204} THEN "raise" ELSE "ok"

\* The check of line 555 left out
ServiceAccountOutcome_IdUnchecked(a) ==
    IF a.status # 200 THEN "raise" ELSE "ok"

\* assign_service_account_role, lines 550-556
ServiceAccountOutcome(a) ==
    IF a.status # 200 THEN "raise" ELSE IF a.val = 0 THEN "raise" ELSE "ok"

\* run_bootstrap, line 621
UserRoles(a) == IF a.role # << >> THEN a.role ELSE DEFAULT_ROLES

\* run_bootstrap, line 628: the roles handed to ensure_roles
RolesToEnsure(a) == DEFAULT_ROLES

(***************************************************************************)
(* The control flow of run_bootstrap between two requests                  *)
(***************************************************************************)
Raise(l) == [l EXCEPT !.pc = "failed"]

\* line 636 and 637: ensure_client for the frontend, then for the backend
CallEnsureClient(l, w) == [l EXCEPT !.pc = "resolve_client_id", !.which = w]

\* The call of line 628 left out
CallEnsureRoles_Skipped(l) == [l EXCEPT !.pc = "resolve_client_id", !.which = "frontend"]

\* line 628: ensure_roles, and its loop
CallEnsureRoles(l) ==
    IF Len(RolesToEnsure(args)) = 0 THEN CallEnsureClient(l, "frontend")
    ELSE [l EXCEPT !.pc = "role_exists", !.i = 1]

\* The loop of line 256 stays at its role
NextRole_SameRole(l) ==
    IF l.i < Len(RolesToEnsure(args)) THEN [l EXCEPT !.pc = "role_exists"]
    ELSE [l EXCEPT !.pc = "resolve_client_id", !.which = "frontend"]

\* lines 256-277: the next iteration of the loop, or the return to line 636
NextRole(l) ==
    IF l.i < Len(RolesToEnsure(args)) THEN [l EXCEPT !.pc = "role_exists", !.i = @ + 1]
    ELSE CallEnsureClient(l, "frontend")

\* ensure_client returns client_uuid
ReturnFromEnsureClient(l, client_uuid) ==
    LET m == [l EXCEPT !.client_uuid[l.which] = client_uuid]
    IN  IF l.which = "frontend" THEN CallEnsureClient(m, "backend")
        ELSE [m EXCEPT !.pc = "get_client_secret"]

\* lines 647-654
AfterUsers(l) ==
    IF args.assign_service_account_role # << >>
    THEN [l EXCEPT !.pc = "assign_service_account_role"]
    ELSE [l EXCEPT !.pc = "summary"]

\* lines 641-645: the loop over the users
NextUser(l) ==
    IF l.u < Len(l.users) THEN [l EXCEPT !.pc = "ensure_user", !.u = @ + 1]
    ELSE AfterUsers(l)

\* lines 506-507: assign_realm_roles is entered and get_role_representations called
CallAssignRealmRoles(l, roles, for) ==
    LET m == [l EXCEPT !.assign_for = for, !.roles_list = roles, !.j = 1,
                       !.role_reps = << >>, !.missing_roles = << >>]
    IN  IF Len(roles) = 0 THEN [m EXCEPT !.pc = "assign_realm_roles"]
        ELSE [m EXCEPT !.pc = "get_role_representations"]

\* The return of line 514 taken for an error
ReturnFromAssignRealmRoles_Raises(l) == [l EXCEPT !.pc = "failed"]

\* assign_realm_roles returns: to the loop of line 641, or to line 654
ReturnFromAssignRealmRoles(l) ==
    IF l.assign_for = "user" THEN NextUser(l) ELSE [l EXCEPT !.pc = "summary"]

\* The user the loop of run_bootstrap is at
User == local.users[local.u]

\* The name assign_realm_roles prints
Username == IF local.assign_for = "user" THEN User.username ELSE << "service-account" >>

(***************************************************************************)
(* The steps of the script: one action per request, and one for each       *)
(* stretch of code that sends none                                         *)
(***************************************************************************)
Silent == UNCHANGED << args, run, log, kc, kc0, past, faultsLeft, otherLeft >>

Rest == UNCHANGED << args, run, kc0, past, otherLeft >>

Line(what, who, roles, secret) ==
    [what |-> what, who |-> who, roles |-> roles, secret |-> secret]

\* The check of line 732 left out
NoUserGiven_Never(a) == FALSE

\* main, line 732: not args.user
NoUserGiven(a) == Len(a.user) = 0

\* main, lines 730-734
main ==
    /\ pc = "main"
    /\ local' = IF NoUserGiven(args) THEN Raise(local)
                ELSE [local EXCEPT !.pc = "run_bootstrap"]
    /\ UNCHANGED printed
    /\ Silent

\* run_bootstrap, line 622: what parse_user_specs(args.user) does
Parsed == parse_user_specs(args.user)

\* run_bootstrap, lines 621-622
run_bootstrap ==
    /\ pc = "run_bootstrap"
    /\ local' = IF Parsed.raised THEN Raise(local)
                ELSE [local EXCEPT !.pc = "get_admin_token",
                                   !.user_roles = UserRoles(args),
                                   !.users = Parsed.users]
    /\ UNCHANGED printed
    /\ Silent

\* get_admin_token, called at line 624
get_admin_token ==
    /\ pc = "get_admin_token"
    /\ \E a \in Answers(KcToken) :
          /\ Send(Request("token", << >>, 0, << >>), KcToken, kc, a)
          /\ local' = IF TokenOutcome(a) = "raise" THEN Raise(local)
                      ELSE [local EXCEPT !.pc = "ensure_realm", !.token = a.val]
    /\ UNCHANGED printed
    /\ Rest

\* ensure_realm, lines 185-191: the lookup
ensure_realm ==
    /\ pc = "ensure_realm"
    /\ LET truth == KcGetRealm(kc, Realm)
       IN  \E a \in AnswersToRealmLookup(truth) :
              /\ Send(Request("realm_get", Realm, 0, << >>), truth, kc, a)
              /\ local' = CASE RealmLookupOutcome(a.status) = "return" -> CallEnsureRoles(local)
                            [] RealmLookupOutcome(a.status) = "raise" -> Raise(local)
                            [] OTHER -> [local EXCEPT !.pc = "ensure_realm_create"]
    /\ UNCHANGED printed
    /\ Rest

\* ensure_realm, lines 193-205: the create
ensure_realm_create ==
    /\ pc = "ensure_realm_create"
    /\ LET r == KcPostRealm(kc, Realm)
       IN  \E a \in Answers(r.ans) :
              /\ Send(Request("realm_post", Realm, 0, << >>), r.ans, r.kc, a)
              /\ local' = IF RealmCreateOutcome(a.status) = "raise" THEN Raise(local)
                          ELSE CallEnsureRoles(local)
    /\ UNCHANGED printed
    /\ Rest

\* The role ensure_roles is at
Role == RolesToEnsure(args)[local.i]

\* ensure_roles, lines 256-259: role_exists for the role of this iteration
ensure_roles ==
    /\ pc = "role_exists"
    /\ LET truth == KcGetRole(kc, Realm, Role)
       IN  \E a \in Answers(truth) :
              /\ Send(Request("role_get", Role, 0, << >>), truth, kc, a)
              /\ IF role_exists(a.status)
                 THEN /\ local' = NextRole(local)
                      /\ printed' = Append(printed, Line("role_exists", << >>, << Role >>, 0))
                 ELSE /\ local' = [local EXCEPT !.pc = "ensure_roles_create"]
                      /\ UNCHANGED printed
    /\ Rest

\* ensure_roles, lines 261-277: the create of the role of this iteration
ensure_roles_create ==
    /\ pc = "ensure_roles_create"
    /\ LET r == KcPostRole(kc, Realm, Role)
       IN  \E a \in Answers(r.ans) :
              /\ Send(Request("role_post", Role, 0, << >>), r.ans, r.kc, a)
              /\ CASE RoleCreateOutcome(a.status) = "created" ->
                        /\ local' = NextRole(local)
                        /\ printed' = Append(printed, Line("role_created", << >>, << Role >>, 0))
                   [] RoleCreateOutcome(a.status) = "conflict" ->
                        /\ local' = NextRole(local)
                        /\ printed' = Append(printed, Line("role_exists", << >>, << Role >>, 0))
                   [] OTHER ->
                        /\ local' = Raise(local)
                        /\ UNCHANGED printed
    /\ Rest

\* The ClientSpec ensure_client was called with
Client == build_client_specs[local.which]

\* ensure_client, lines 324-326: the first resolve_client_id
ensure_client ==
    /\ pc = "resolve_client_id"
    /\ LET truth == KcGetClients(kc, Realm, Client.client_id)
       IN  \E a \in Answers(truth) :
              /\ Send(Request("client_get", Client.client_id, 0, << >>), truth, kc, a)
              /\ local' = IF resolve_client_id(a) # 0
                          THEN ReturnFromEnsureClient(local, resolve_client_id(a))
                          ELSE [local EXCEPT !.pc = "ensure_client_create"]
    /\ UNCHANGED printed
    /\ Rest

\* ensure_client, lines 328-338: the create
ensure_client_create ==
    /\ pc = "ensure_client_create"
    /\ LET r == KcPostClient(kc, Realm, Client)
       IN  \E a \in Answers(r.ans) :
              /\ Send(Request("client_post", Client.client_id, 0, << >>), r.ans, r.kc, a)
              /\ local' = IF ClientCreateOutcome(a.status) = "raise" THEN Raise(local)
                          ELSE [local EXCEPT !.pc = "ensure_client_resolve"]
    /\ UNCHANGED printed
    /\ Rest

\* ensure_client, lines 340-343: resolve_client_id after the create
ensure_client_resolve ==
    /\ pc = "ensure_client_resolve"
    /\ LET truth == KcGetClients(kc, Realm, Client.client_id)
       IN  \E a \in Answers(truth) :
              /\ Send(Request("client_get", Client.client_id, 0, << >>), truth, kc, a)
              /\ local' = IF resolve_client_id(a) = 0 THEN Raise(local)
                          ELSE ReturnFromEnsureClient(local, resolve_client_id(a))
    /\ UNCHANGED printed
    /\ Rest

\* get_client_secret, called at line 638 with backend_uuid
get_client_secret ==
    /\ pc = "get_client_secret"
    /\ LET backend_uuid == local.client_uuid["backend"]
           truth == KcGetSecret(kc, Realm, backend_uuid)
       IN  \E a \in Answers(truth) :
              /\ Send(Request("secret_get", << >>, backend_uuid, << >>), truth, kc, a)
              /\ local' = IF SecretOutcome(a) = "raise" THEN Raise(local)
                          ELSE NextUser([local EXCEPT !.backend_secret = a.val])
    /\ UNCHANGED printed
    /\ Rest

\* ensure_user, lines 391-399: the lookup; its result goes to set_user_password
ensure_user ==
    /\ pc = "ensure_user"
    /\ LET truth == KcGetUsers(kc, Realm, User.username)
       IN  \E a \in Answers(truth) :
              /\ Send(Request("user_get", User.username, 0, << >>), truth, kc, a)
              /\ local' = IF UserFound(a)
                          THEN [local EXCEPT !.pc = "set_user_password", !.user_id = a.val]
                          ELSE [local EXCEPT !.pc = "ensure_user_create"]
    /\ UNCHANGED printed
    /\ Rest

\* ensure_user, lines 401-412: the create
ensure_user_create ==
    /\ pc = "ensure_user_create"
    /\ LET r == KcPostUser(kc, Realm, User.username)
       IN  \E a \in Answers(r.ans) :
              /\ Send(Request("user_post", User.username, 0, << >>), r.ans, r.kc, a)
              /\ local' = IF UserCreateOutcome(a.status) = "raise" THEN Raise(local)
                          ELSE [local EXCEPT !.pc = "ensure_user_lookup"]
    /\ UNCHANGED printed
    /\ Rest

\* ensure_user, lines 414-423: the lookup after the create
ensure_user_lookup ==
    /\ pc = "ensure_user_lookup"
    /\ LET truth == KcGetUsers(kc, Realm, User.username)
       IN  \E a \in Answers(truth) :
              /\ Send(Request("user_get", User.username, 0, << >>), truth, kc, a)
              /\ local' = IF UserFound(a)
                          THEN [local EXCEPT !.pc = "set_user_password", !.user_id = a.val]
                          ELSE Raise(local)
    /\ UNCHANGED printed
    /\ Rest

\* set_user_password, line 440: the payload of the request
PasswordPayload(password) == [type |-> "password", value |-> password, temporary |-> FALSE]

\* set_user_password, called at line 644; line 645 then enters assign_realm_roles
set_user_password ==
    /\ pc = "set_user_password"
    /\ LET r == KcPutPassword(kc, Realm, local.user_id, User.password)
       IN  \E a \in Answers(r.ans) :
              /\ Send(Request("password_put", << >>, local.user_id,
                              << PasswordPayload(User.password) >>),
                      r.ans, r.kc, a)
              /\ local' = IF PasswordOutcome(a.status) = "raise" THEN Raise(local)
                          ELSE CallAssignRealmRoles(local, User.roles, "user")
    /\ UNCHANGED printed
    /\ Rest

\* get_role_representations, lines 472-486: one iteration of its loop
get_role_representations ==
    /\ pc = "get_role_representations"
    /\ LET role  == local.roles_list[local.j]
           truth == KcGetRole(kc, Realm, role)
       IN  \E a \in Answers(truth) :
              /\ Send(Request("role_rep_get", role, 0, << >>), truth, kc, a)
              /\ LET m == IF RoleFetched(a.status)
                          THEN [local EXCEPT !.role_reps = Append(@, role)]
                          ELSE [local EXCEPT !.missing_roles = Append(@, role)]
                 IN  local' = IF local.j < Len(local.roles_list)
                              THEN [m EXCEPT !.j = @ + 1]
                              ELSE [m EXCEPT !.pc = "assign_realm_roles"]
    /\ UNCHANGED printed
    /\ Rest

\* What lines 509-514 print
Warnings(l, who) ==
    (IF l.missing_roles # << >> THEN << Line("skipped", who, l.missing_roles, 0) >> ELSE << >>)
    \o (IF l.role_reps = << >> THEN << Line("no_valid_roles", who, << >>, 0) >> ELSE << >>)

\* assign_realm_roles, lines 509-514: after get_role_representations returned
assign_realm_roles ==
    /\ pc = "assign_realm_roles"
    /\ printed' = printed \o Warnings(local, Username)
    /\ local' = IF local.role_reps = << >> THEN ReturnFromAssignRealmRoles(local)
                ELSE [local EXCEPT !.pc = "assign_realm_roles_post"]
    /\ Silent

\* assign_realm_roles, lines 516-528: the role-mapping request
assign_realm_roles_post ==
    /\ pc = "assign_realm_roles_post"
    /\ LET r == KcPostRoleMappings(kc, Realm, local.user_id, local.role_reps)
       IN  \E a \in Answers(r.ans) :
              /\ Send(Request("mapping_post", << >>, local.user_id, local.role_reps),
                      r.ans, r.kc, a)
              /\ IF MappingOutcome(a.status) = "raise"
                 THEN /\ local' = Raise(local)
                      /\ UNCHANGED printed
                 ELSE /\ local' = ReturnFromAssignRealmRoles(local)
                      /\ printed' = Append(printed, Line("assigned", Username, local.role_reps, 0))
    /\ Rest

\* assign_service_account_role, lines 544-557
assign_service_account_role ==
    /\ pc = "assign_service_account_role"
    /\ LET backend_uuid == local.client_uuid["backend"]
           truth == KcGetServiceAccountUser(kc, Realm, backend_uuid)
       IN  \E a \in Answers(truth) :
              /\ Send(Request("service_account_get", << >>, backend_uuid, << >>), truth, kc, a)
              /\ local' = IF ServiceAccountOutcome(a) = "raise" THEN Raise(local)
                          ELSE CallAssignRealmRoles([local EXCEPT !.user_id = a.val],
                                                    << args.assign_service_account_role >>, "sa")
    /\ UNCHANGED printed
    /\ Rest

\* run_bootstrap, lines 656-665: the summary is printed and the run is over
print_summary ==
    /\ pc = "summary"
    /\ printed' = Append(printed, Line("summary", << >>, local.user_roles, local.backend_secret))
    /\ local' = [local EXCEPT !.pc = "done"]
    /\ Silent

\* The script is started again with the same command line
Rerun ==
    /\ pc \in {"done", "failed"}
    /\ run < MaxRuns
    /\ past' = Append(past, [outcome |-> pc, log |-> log, printed |-> printed,
                             client_uuid |-> local.client_uuid, kc0 |-> kc0, kc |-> kc])
    /\ run' = run + 1
    /\ local' = InitLocal
    /\ log' = << >>
    /\ printed' = << >>
    /\ kc0' = kc
    /\ UNCHANGED << args, kc, faultsLeft, otherLeft >>

\* Another client of the service creates one of the default roles while
\* ensure_roles runs
OtherActorCreatesRole ==
    /\ otherLeft > 0
    /\ pc \in {"role_exists", "ensure_roles_create"}
    /\ \E n \in DOMAIN DEFAULT_ROLES :
          LET r == KcPostRole(kc, Realm, DEFAULT_ROLES[n])
          IN  /\ r.ans.status = 201
              /\ kc' = r.kc
    /\ otherLeft' = otherLeft - 1
    /\ UNCHANGED << args, run, local, log, printed, kc0, past, faultsLeft >>

Step ==
    \/ main
    \/ run_bootstrap
    \/ get_admin_token
    \/ ensure_realm
    \/ ensure_realm_create
    \/ ensure_roles
    \/ ensure_roles_create
    \/ ensure_client
    \/ ensure_client_create
    \/ ensure_client_resolve
    \/ get_client_secret
    \/ ensure_user
    \/ ensure_user_create
    \/ ensure_user_lookup
    \/ set_user_password
    \/ get_role_representations
    \/ assign_realm_roles
    \/ assign_realm_roles_post
    \/ assign_service_account_role
    \/ print_summary
    \/ Rerun

Start(services, userArgs, roleArgs, saArgs, faults, others) ==
    /\ args \in [user : userArgs, role : roleArgs, assign_service_account_role : saArgs]
    /\ run = 1
    /\ local = InitLocal
    /\ log = << >>
    /\ printed = << >>
    /\ kc \in services
    /\ kc0 = kc
    /\ past = << >>
    /\ faultsLeft = faults
    /\ otherLeft = others

\* The service answers every request for what it holds, and nobody else uses it
Init == Start(InitialServices, UserArgs, RoleArgs, SaRoleArgs, 0, 0)

Next == Step

\* The script runs on its own and every request is answered or times out, so a
\* run that can take a step takes one
Spec == Init /\ [][Next]_vars /\ WF_vars(Next)

\* The service may answer with an error status or an incomplete body, and
\* another client may create a role at any moment
InitFaulty ==
    Start({ Fresh }, { << AdminSpec >>, << AliceSpec >> },
          { << >> }, { StatecheckerAdmin }, MaxFaults, MaxOther)

NextFaulty == Step \/ OtherActorCreatesRole

SpecFaulty == InitFaulty /\ [][NextFaulty]_vars /\ WF_vars(Step)

\* The service may answer with an error status or an incomplete body, and
\* nobody else uses it
InitAbort ==
    Start({ Fresh }, { << AdminSpec >>, << AliceSpec >> },
          { << >> }, { StatecheckerAdmin, Ghost }, MaxFaults, 0)

SpecAbort == InitAbort /\ [][Next]_vars /\ WF_vars(Next)

\* The start of run_bootstrap up to its first request: parse_user_specs is
\* applied to the list of --user values
InitParse == Start({ Fresh }, ParseArgs, { << >> }, { << >> }, 0, 0)

NextParse == main \/ run_bootstrap \/ get_admin_token

SpecParse == InitParse /\ [][NextParse]_vars

(***************************************************************************)
(* Vocabulary of the properties                                            *)
(***************************************************************************)
CreateKinds == { "realm_post", "role_post", "client_post", "user_post" }
WriteKinds  == CreateKinds \cup { "password_put", "mapping_post" }

Entries(l, kinds) == { n \in DOMAIN l : l[n].kind \in kinds }

NoFault(l) == \A n \in DOMAIN l : ~l[n].fault

\* The users of the service with the given username
UsersNamed(k, username) == { n \in DOMAIN k.users : k.users[n].key = username }

\* The account of the given username (the first one, as the lookups answer)
Account(k, username) == SelectFirst(k.users, username)[1]

\* The service state without the passwords
WithoutPasswords(k) ==
    [k EXCEPT !.users = [n \in DOMAIN @ |-> [@[n] EXCEPT !.password = NoPassword]]]

\* The run before the current one
Previous == past[run - 1]

(***************************************************************************)
(* C1: a second run of run_bootstrap with the same arguments, on the       *)
(* service as a first successful run left it, does not fail, sends no      *)
(* realm-, role-, client- or user-create request, writes only with the     *)
(* password reset and the role-mapping request, and leaves the realms,     *)
(* roles, clients, users and every user's role mappings as they were.      *)
(***************************************************************************)
C1_SecondRun == run >= 2 /\ Previous.outcome = "done"

C1_Unchanged ==
    C1_SecondRun =>
        /\ pc # "failed"
        /\ Entries(log, CreateKinds) = {}
        /\ Entries(log, WriteKinds) \subseteq Entries(log, {"password_put", "mapping_post"})
        /\ WithoutPasswords(kc) = WithoutPasswords(kc0)
        /\ pc = "done" => kc = kc0

C1_RerunChangesNothing == []C1_Unchanged /\ (C1_SecondRun ~> (C1_SecondRun /\ pc = "done"))

C1_Witness ==
    /\ run = 2
    /\ Previous.outcome = "done"
    /\ Previous.kc0 = Fresh
    /\ pc = "done"
    /\ Entries(log, {"password_put"}) # {}
    /\ Entries(log, {"mapping_post"}) # {}

(***************************************************************************)
(* C3: on a fresh service that answers every request, the run with the     *)
(* single user spec admin:admin:statechecker:admin does not fail and ends  *)
(* with the realm, both default roles, both clients, a non-empty backend   *)
(* secret, exactly one user admin with its password set and the role       *)
(* statechecker:admin, and the role statechecker:admin on the service      *)
(* account of the backend client.                                          *)
(***************************************************************************)
C3_Scenario ==
    /\ run = 1
    /\ kc0 = Fresh
    /\ args.user = << AdminSpec >>
    /\ args.assign_service_account_role = StatecheckerAdmin

C3_EndState ==
    C3_Scenario =>
        /\ pc # "failed"
        /\ pc = "done" =>
              /\ kc.realms = << Realm >>
              /\ kc.roles = DEFAULT_ROLES
              /\ { c.key : c \in Range(kc.clients) } = { FrontendClientId, BackendClientId }
              /\ Len(kc.clients) = 2
              /\ local.backend_secret # 0
              /\ printed[Len(printed)].secret = local.backend_secret
              /\ Cardinality(UsersNamed(kc, << "admin" >>)) = 1
              /\ Account(kc, << "admin" >>).password = << "admin" >>
              /\ Account(kc, << "admin" >>).roles = { StatecheckerAdmin }
              /\ Account(kc, ServiceAccountName(BackendClientId)).roles = { StatecheckerAdmin }
              /\ Len(kc.users) = 2
              /\ Cardinality(Entries(log, CreateKinds)) = 6

C3_FreshRun == []C3_EndState /\ (C3_Scenario ~> (C3_Scenario /\ pc = "done"))

C3_Witness == C3_Scenario /\ pc = "done"

(***************************************************************************)
(* C8 (as claimed): after a successful run every role listed under "roles" *)
(* in the summary, that is every role given with --role, exists in the     *)
(* realm.                                                                  *)
(***************************************************************************)
C8_SummaryRolesExist ==
    pc = "done" => \A r \in Range(printed[Len(printed)].roles) : RoleExists(kc, r)

(***************************************************************************)
(* C10: when no user spec is given the process ends with an error and      *)
(* sends no request, neither for the token nor to the admin API.           *)
(***************************************************************************)
C10_NoUserNoRequest ==
    Len(args.user) = 0 =>
        /\ pc \in {"main", "failed"}
        /\ log = << >>
        /\ \A r \in DOMAIN past : past[r].log = << >> /\ past[r].outcome = "failed"
        /\ kc = kc0

C10_Witness == Len(args.user) = 0 /\ pc = "failed" /\ run = 2

(***************************************************************************)
(* C4: a call of ensure_realm for a realm that exists after an earlier     *)
(* call is a no-op: it sends the lookup and nothing else, raises nothing,  *)
(* and the realms of the service stay as they are, the realm held once.    *)
(***************************************************************************)
C4_CalledBefore ==
    \E r \in DOMAIN past : Entries(past[r].log, {"realm_get"}) # {}

C4_SecondCallIsNoOp ==
    [][ (pc = "ensure_realm" /\ C4_CalledBefore /\ RealmExists(kc, Realm)) =>
            /\ log' = Append(log, [kind |-> "realm_get", name |-> Realm, id |-> 0,
                                   body |-> << >>, status |-> 200, found |-> FALSE,
                                   fault |-> FALSE,
                                   token |-> local.token])
            /\ pc' = "role_exists"
            /\ kc' = kc
            /\ Count(kc'.realms, Realm) = 1 ]_vars

\* the second call has returned: the run is at the first request of ensure_roles
C4_Witness ==
    /\ run = 2
    /\ C4_CalledBefore
    /\ past[1].kc0 = Fresh
    /\ pc = "role_exists"
    /\ local.i = 1
    /\ Len(log) = 2
    /\ log[2].kind = "realm_get"

(***************************************************************************)
(* C6: when the client exists already, two consecutive calls of            *)
(* ensure_client for its ClientSpec return the same identifier, neither    *)
(* sends a create request nor raises, and the clients of the realm stay    *)
(* as they are.                                                            *)
(***************************************************************************)
C6_ClientRequests(l, client_id) ==
    { n \in DOMAIN l : l[n].kind \in {"client_get", "client_post"} /\ l[n].name = client_id }

C6_TwoCalls(w) ==
    /\ run >= 2
    /\ SelectFirst(Previous.kc0.clients, build_client_specs[w].client_id) # << >>
    /\ C6_ClientRequests(Previous.log, build_client_specs[w].client_id) # {}
    /\ C6_ClientRequests(log, build_client_specs[w].client_id) # {}

C6_SameClientId ==
    \A w \in {"frontend", "backend"} :
        C6_TwoCalls(w) =>
            LET client_id == build_client_specs[w].client_id
            IN  /\ Previous.client_uuid[w] # 0
                /\ local.client_uuid[w] = Previous.client_uuid[w]
                /\ Cardinality(C6_ClientRequests(Previous.log, client_id)) = 1
                /\ Cardinality(C6_ClientRequests(log, client_id)) = 1
                /\ \A n \in C6_ClientRequests(log, client_id) : log[n].kind = "client_get"
                /\ \A n \in C6_ClientRequests(Previous.log, client_id) :
                      Previous.log[n].kind = "client_get"
                /\ kc.clients = Previous.kc0.clients

C6_Witness ==
    /\ C6_TwoCalls("backend")
    /\ Previous.kc0 = PreClients
    /\ pc = "done"

(***************************************************************************)
(* C7: when at least one of the requested roles exists, assign_realm_roles *)
(* raises nothing for the missing ones, sends one role-mapping request     *)
(* with exactly the requested roles that exist, in request order, reports  *)
(* exactly the others as skipped, and the user then has every existing     *)
(* requested role.                                                         *)
(***************************************************************************)
C7_Exists(r)  == RoleExists(kc, r)
C7_Missing(r) == ~RoleExists(kc, r)

C7_SomeRoleExists == \E r \in Range(local.roles_list) : RoleExists(kc, r)

C7_PartialAssignment ==
    [][ /\ (pc = "assign_realm_roles" /\ C7_SomeRoleExists) =>
              /\ local.role_reps = SelectSeq(local.roles_list, C7_Exists)
              /\ local.missing_roles = SelectSeq(local.roles_list, C7_Missing)
              /\ printed' = IF local.missing_roles = << >> THEN printed
                            ELSE Append(printed,
                                        Line("skipped", Username, local.missing_roles, 0))
              /\ pc' = "assign_realm_roles_post"
              /\ log' = log
        /\ (pc = "assign_realm_roles_post" /\ C7_SomeRoleExists) =>
              /\ log' = Append(log, [kind |-> "mapping_post", name |-> << >>,
                                     id |-> local.user_id,
                                     body |-> SelectSeq(local.roles_list, C7_Exists),
                                     status |-> 204, found |-> FALSE, fault |-> FALSE,
                                     token |-> local.token])
              /\ pc' \notin {"failed", "assign_realm_roles_post"}
              /\ \A x \in UserById(kc', local.user_id) :
                    { r \in Range(local.roles_list) : RoleExists(kc, r) } \subseteq x.roles
              /\ UserById(kc', local.user_id) # {} ]_vars

\* alice asked for statechecker:read and ghost: one is mapped, one is skipped
C7_Witness ==
    /\ log # << >>
    /\ log[Len(log)].kind = "mapping_post"
    /\ log[Len(log)].body = << StatecheckerRead >>
    /\ printed # << >>
    /\ \E n \in DOMAIN printed : printed[n] = Line("skipped", << "alice" >>, << Ghost >>, 0)
    /\ Account(kc, << "alice" >>).roles = { StatecheckerRead }

(***************************************************************************)
(* C5: in ensure_roles, when the existence check reported the role absent  *)
(* and the create request is answered with the conflict status, nothing is *)
(* raised, ensure_roles goes on as if the check had found the role, and    *)
(* the realm holds the role exactly once.                                  *)
(***************************************************************************)
C5_ConflictIsSuccess ==
    [][ (/\ pc = "ensure_roles_create"
         /\ log[Len(log)].kind = "role_get"
         /\ log[Len(log)].status # 200
         /\ Len(log') = Len(log) + 1
         /\ log'[Len(log')].status = 409) =>
            /\ log'[Len(log')].kind = "role_post"
            /\ local' = NextRole(local)
            /\ printed' = Append(printed, Line("role_exists", << >>, << Role >>, 0))
            /\ Count(kc'.roles, Role) = 1 ]_vars

\* the role was created by somebody else between the check and the create
C5_Witness ==
    /\ Len(log) >= 2
    /\ log[Len(log)].kind = "role_post"
    /\ log[Len(log)].status = 409
    /\ log[Len(log) - 1].kind = "role_get"
    /\ log[Len(log) - 1].status = 404
    /\ pc # "failed"
    /\ otherLeft < MaxOther

(***************************************************************************)
(* C2: when a run on a fresh service was aborted by a request that got an  *)
(* error, a later run with the same arguments that the service answers     *)
(* correctly does not fail and ends with the service in the state of one   *)
(* uninterrupted run on a fresh service.                                   *)
(***************************************************************************)
\* What the service holds: names, flags, passwords and role mappings
View(k) ==
    [realms  |-> Range(k.realms),
     roles   |-> Range(k.roles),
     clients |-> { [key |-> c.key, sa |-> c.sa] : c \in Range(k.clients) },
     users   |-> { [key |-> x.key, password |-> x.password, roles |-> x.roles,
                    enabled |-> x.enabled] : x \in Range(k.users) },
     count   |-> << Len(k.realms), Len(k.roles), Len(k.clients), Len(k.users) >>]

\* The specs of the command line for one username
SpecsOf(username) == { n \in DOMAIN Parsed.users : Parsed.users[n].username = username }

LastSpecOf(username) ==
    Parsed.users[CHOOSE n \in SpecsOf(username) : \A m \in SpecsOf(username) : m <= n]

\* The state one uninterrupted run leaves on a fresh service
C2_Expected ==
    LET defaults  == Range(DEFAULT_ROLES)
        usernames == { Parsed.users[n].username : n \in DOMAIN Parsed.users }
        accounts  ==
            { [key |-> name, password |-> LastSpecOf(name).password,
               roles |-> UNION { Range(Parsed.users[n].roles) : n \in SpecsOf(name) }
                         \cap defaults,
               enabled |-> TRUE] : name \in usernames }
        service_account ==
            [key |-> ServiceAccountName(BackendClientId), password |-> NoPassword,
             roles |-> { args.assign_service_account_role } \cap defaults,
             enabled |-> TRUE]
    IN  [realms  |-> { Realm },
         roles   |-> defaults,
         clients |-> { [key |-> FrontendClientId, sa |-> FALSE],
                       [key |-> BackendClientId, sa |-> TRUE] },
         users   |-> accounts \cup { service_account },
         count   |-> << 1, 2, 2, Cardinality(usernames) + 1 >>]

C2_Uninterrupted ==
    (run = 1 /\ kc0 = Fresh /\ NoFault(log) /\ pc = "done") => View(kc) = C2_Expected

C2_RunAfterAbort ==
    /\ run >= 2
    /\ past[1].kc0 = Fresh
    /\ Previous.outcome = "failed"
    /\ ~NoFault(Previous.log)
    /\ NoFault(log)

C2_Recovered ==
    C2_RunAfterAbort =>
        /\ pc # "failed"
        /\ pc = "done" => View(kc) = C2_Expected

C2_RerunAfterAbort ==
    /\ [](C2_Uninterrupted /\ C2_Recovered)
    /\ (C2_RunAfterAbort /\ faultsLeft = 0) ~> (C2_RunAfterAbort /\ pc = "done")

\* the first run was aborted after it had created something
C2_Witness ==
    /\ C2_RunAfterAbort
    /\ Previous.kc # Fresh
    /\ pc = "done"

(***************************************************************************)
(* C9 (as claimed): a request of the run that gets an unexpected status is *)
(* the last request of the run: the run is aborted, nothing more is sent   *)
(* and no summary is printed.  (The lookups of get_role_representations    *)
(* are left out: a role that cannot be fetched is skipped by design.)      *)
(***************************************************************************)
C9_Unexpected(e) ==
    CASE e.kind = "token" -> e.status # 200
      [] e.kind = "realm_get" -> e.status \notin {200, 404, 400}
      [] e.kind \in {"role_get", "client_get", "user_get"} -> e.status \notin {200, 404}
      [] e.kind \in {"realm_post", "client_post", "user_post"} -> e.status \notin {201, 204}
      [] e.kind = "role_post" -> e.status \notin {201, 204, 409}
      [] e.kind \in {"secret_get", "service_account_get"} -> e.status # 200
      [] e.kind \in {"password_put", "mapping_post"} -> e.status # 204
      [] OTHER -> FALSE

C9_AbortOnUnexpectedStatus ==
    \A n \in DOMAIN log :
        C9_Unexpected(log[n]) =>
            /\ n = Len(log)
            /\ pc = "failed"
            /\ \A m \in DOMAIN printed : printed[m].what # "summary"

(***************************************************************************)
(* The format username:password:role1,role2 read from left to right        *)
(***************************************************************************)
Colons(s) == { k \in 1..Len(s) : s[k] = Colon }

FirstColon(s) == CHOOSE k \in Colons(s) : \A m \in Colons(s) : k <= m

SecondColon(s) ==
    CHOOSE k \in Colons(s) \ { FirstColon(s) } : \A m \in Colons(s) \ { FirstColon(s) } : k <= m

BeforeFirstColon(s) == SubSeq(s, 1, FirstColon(s) - 1)

BetweenColons(s) == SubSeq(s, FirstColon(s) + 1, SecondColon(s) - 1)

AfterSecondColon(s) == SubSeq(s, SecondColon(s) + 1, Len(s))

RECURSIVE Trimmed(_)
\* s without the blanks at its ends
Trimmed(s) ==
    IF s = << >> THEN << >>
    ELSE IF Head(s) = Blank THEN Trimmed(Tail(s))
    ELSE IF s[Len(s)] = Blank THEN Trimmed(SubSeq(s, 1, Len(s) - 1))
    ELSE s

RECURSIVE RoleList(_)
\* The roles of a comma-separated list, from left to right
RoleList(s) ==
    LET commas == { k \in 1..Len(s) : s[k] = Comma }
        first  == CHOOSE k \in commas : \A m \in commas : k <= m
        one(r) == IF Trimmed(r) = << >> THEN << >> ELSE << Trimmed(r) >>
    IN  IF commas = {} THEN one(s)
        ELSE one(SubSeq(s, 1, first - 1)) \o RoleList(SubSeq(s, first + 1, Len(s)))

\* run_bootstrap is past its call of parse_user_specs
ParseDone == pc \notin { "main", "run_bootstrap" }

(***************************************************************************)
(* C11: for a list of spec strings that each have at least three           *)
(* colon-separated parts and a non-empty first part, second part and role  *)
(* list, parse_user_specs returns one UserSpec per string, in input order, *)
(* with the first part as username, the second as password, and as roles   *)
(* the comma-separated entries of everything after the second colon, each  *)
(* stripped of blanks, the empty ones dropped, in order.                    *)
(***************************************************************************)
C11_WellFormed(s) ==
    /\ Cardinality(Colons(s)) >= 2
    /\ BeforeFirstColon(s) # << >>
    /\ BetweenColons(s) # << >>
    /\ RoleList(AfterSecondColon(s)) # << >>

C11_Expected(s) ==
    [username |-> BeforeFirstColon(s),
     password |-> BetweenColons(s),
     roles    |-> RoleList(AfterSecondColon(s))]

\* The two examples of the format
C11_Examples ==
    /\ parse_user_specs(<< << "alice", ":", "secret", ":", "admin", ",", "read" >> >>)
         = [raised |-> FALSE,
            users  |-> << [username |-> << "alice" >>, password |-> << "secret" >>,
                           roles |-> << << "admin" >>, << "read" >> >>] >>]
    /\ parse_user_specs(<< AdminSpec >>)
         = [raised |-> FALSE,
            users  |-> << [username |-> << "admin" >>, password |-> << "admin" >>,
                           roles |-> << StatecheckerAdmin >>] >>]

C11_ParsesWellFormedSpecs ==
    /\ (ParseDone /\ \A n \in DOMAIN args.user : C11_WellFormed(args.user[n])) =>
          /\ pc # "failed"
          /\ local.users = [n \in DOMAIN args.user |-> C11_Expected(args.user[n])]
    /\ C11_Examples

\* two specs were parsed; the second has a role with a colon and, after a
\* comma and a blank, another role
C11_Witness ==
    /\ ParseDone
    /\ args.user = << AdminSpec, AliceSpec >>
    /\ Len(local.users) = 2
    /\ local.users[1].username = << "admin" >>
    /\ local.users[2].roles = << StatecheckerRead, Ghost >>

(***************************************************************************)
(* C12: when a spec string of the list has fewer than three                *)
(* colon-separated parts, an empty username, an empty password, or no role *)
(* left after stripping, parse_user_specs raises and returns no UserSpec,  *)
(* and run_bootstrap ends before it has sent a request.                    *)
(***************************************************************************)
C12_Malformed(s) ==
    \/ Cardinality(Colons(s)) < 2
    \/ FirstColon(s) = 1
    \/ SecondColon(s) = FirstColon(s) + 1
    \/ \A k \in (SecondColon(s) + 1)..Len(s) : s[k] \in { Comma, Blank }

\* The two examples of a bad spec
C12_Examples ==
    /\ parse_user_specs(<< BobShort >>) = [raised |-> TRUE, users |-> << >>]
    /\ parse_user_specs(<< BobNoPw >>) = [raised |-> TRUE, users |-> << >>]

C12_ParseFails ==
    /\ (ParseDone /\ \E n \in DOMAIN args.user : C12_Malformed(args.user[n])) =>
          /\ pc = "failed"
          /\ local.users = << >>
          /\ log = << >>
          /\ printed = << >>
          /\ kc = kc0
    /\ C12_Examples

\* the second spec of the list is bad: the first, a good one, is not returned
C12_Witness ==
    /\ pc = "failed"
    /\ Len(args.user) = 2
    /\ C11_WellFormed(args.user[1])
    /\ C12_Malformed(args.user[2])

(***************************************************************************)
(* C13 (as claimed): in ensure_realm, ensure_roles, ensure_client and      *)
(* ensure_user a lookup answered with a status that is neither success nor *)
(* not-found is fatal: the run is aborted and no create request follows    *)
(* the lookup.                                                             *)
(***************************************************************************)
LookupKinds == { "realm_get", "role_get", "client_get", "user_get" }

C13_LookupErrorIsFatal ==
    \A n \in DOMAIN log :
        (log[n].kind \in LookupKinds /\ log[n].status \notin {200, 404}) =>
            /\ pc = "failed"
            /\ \A m \in DOMAIN log : m > n => log[m].kind \notin CreateKinds

(***************************************************************************)
(* C14 (as claimed): an answer without the expected field (access_token,   *)
(* value, id of the match) ends the run with an error, and no request is   *)
(* sent with a null token, or with a null client or user identifier in its *)
(* path.                                                                   *)
(***************************************************************************)
\* The answer has status 200 and lacks the token, the secret or the id
FieldMissing(e) ==
    /\ e.fault
    /\ e.status = 200
    /\ \/ e.kind \in { "token", "secret_get", "service_account_get" }
       \/ e.kind \in { "client_get", "user_get" } /\ e.found

\* The requests with an identifier in their path
PathKinds == { "secret_get", "service_account_get", "password_put", "mapping_post" }

C14_MissingFieldIsFatal ==
    \A n \in DOMAIN log :
        /\ FieldMissing(log[n]) => pc \notin { "summary", "done" }
        /\ log[n].kind # "token" => log[n].token # 0
        /\ log[n].kind \in PathKinds => log[n].id # 0

(***************************************************************************)
(* C15: the requests of a run come in the order token, realm, default      *)
(* roles (in their order), frontend client, backend client, backend        *)
(* secret, then for each user in input order lookup/create, password, role *)
(* lookups and role mapping, then the service account; nothing is sent     *)
(* before the token was obtained, and no role mapping of a user is sent    *)
(* before ensure_roles went through all default roles and before the       *)
(* password of that user was set.                                          *)
(***************************************************************************)
\* The step of run_bootstrap the n-th request of the log belongs to
Stage(l, n) ==
    CASE l[n].kind = "token" -> 1
      [] l[n].kind \in { "realm_get", "realm_post" } -> 2
      [] l[n].kind \in { "role_get", "role_post" } -> 3
      [] l[n].kind \in { "client_get", "client_post" } ->
            IF l[n].name = FrontendClientId THEN 4 ELSE 5
      [] l[n].kind = "secret_get" -> 6
      [] l[n].kind = "service_account_get" -> 8
      [] OTHER -> IF \E m \in 1..n : l[m].kind = "service_account_get" THEN 8 ELSE 7

RoleIndex(name) == CHOOSE k \in DOMAIN DEFAULT_ROLES : DEFAULT_ROLES[k] = name

\* The first lookups of ensure_user up to the n-th request: as many as users
\* were begun
UsersBegun(l, n) ==
    Cardinality({ m \in 1..n : l[m].kind = "user_get" /\ l[m - 1].kind # "user_post" })

RoleEnsured(l, n, role) ==
    \E m \in 1..(n - 1) :
        /\ l[m].name = role
        /\ \/ l[m].kind = "role_get" /\ l[m].status = 200
           \/ l[m].kind = "role_post" /\ l[m].status \in {201, 204, 409}

C15_InOrder(l, n) ==
    /\ (n = 1) <=> (l[n].kind = "token")
    /\ n > 1 => l[1].status = 200 /\ l[n].token # 0
    /\ \A m \in 1..n : Stage(l, m) <= Stage(l, n)
    /\ l[n].kind \in { "role_get", "role_post" } =>
          \A m \in 1..n : Stage(l, m) = 3 => RoleIndex(l[m].name) <= RoleIndex(l[n].name)
    /\ l[n].kind = "mapping_post" =>
          \A k \in DOMAIN DEFAULT_ROLES : RoleEnsured(l, n, DEFAULT_ROLES[k])

C15_UserInOrder(l, n) ==
    LET u == UsersBegun(l, n)
        mine == { m \in 1..(n - 1) : Stage(l, m) = 7 /\ UsersBegun(l, m) = u }
    IN  /\ u \in DOMAIN Parsed.users
        /\ l[n].kind \in { "user_get", "user_post" } => l[n].name = Parsed.users[u].username
        /\ l[n].kind = "password_put" =>
              /\ l[n].body = << PasswordPayload(Parsed.users[u].password) >>
              /\ \E m \in mine : l[m].kind = "user_get" /\ l[m].status = 200 /\ l[m].found
              /\ \A m \in mine : l[m].kind \in { "user_get", "user_post" }
        /\ l[n].kind = "role_rep_get" =>
              /\ l[n].name \in Range(Parsed.users[u].roles)
              /\ \E m \in mine : l[m].kind = "password_put" /\ l[m].status = 204
        /\ l[n].kind = "mapping_post" =>
              /\ \E m \in mine : /\ l[m].kind = "password_put"
                                 /\ l[m].status = 204
                                 /\ l[m].id = l[n].id
              /\ \A m \in mine : l[m].kind # "mapping_post"

C15_Complete(l) ==
    /\ \E n \in DOMAIN l : l[n].kind = "realm_get"
    /\ \A k \in DOMAIN DEFAULT_ROLES : RoleEnsured(l, Len(l) + 1, DEFAULT_ROLES[k])
    /\ \E n \in DOMAIN l : l[n].kind = "client_get" /\ l[n].name = FrontendClientId
    /\ \E n \in DOMAIN l : l[n].kind = "client_get" /\ l[n].name = BackendClientId
    /\ \E n \in DOMAIN l : l[n].kind = "secret_get" /\ l[n].status = 200
    /\ UsersBegun(l, Len(l)) = Len(args.user)
    /\ \A u \in DOMAIN args.user :
          \E n \in DOMAIN l : /\ UsersBegun(l, n) = u
                              /\ Stage(l, n) = 7
                              /\ l[n].kind = "password_put"
    /\ (args.assign_service_account_role # << >>)
          <=> (\E n \in DOMAIN l : l[n].kind = "service_account_get")

C15_FixedOrder ==
    /\ \A n \in DOMAIN log :
          /\ C15_InOrder(log, n)
          /\ Stage(log, n) = 7 => C15_UserInOrder(log, n)
    /\ pc = "done" => C15_Complete(log)

\* a run for two users and the service account has ended
C15_Witness ==
    /\ pc = "done"
    /\ kc0 = Fresh
    /\ args.user = << AdminSpec, AliceSpec >>
    /\ args.assign_service_account_role = StatecheckerAdmin
    /\ Cardinality(Entries(log, { "mapping_post" })) = 3

(***************************************************************************)
(* C16: in ensure_client and ensure_user, after a create request that      *)
(* reported success, a lookup that finds no entity makes the operation     *)
(* raise, and no identifier is returned; a lookup that finds the entity    *)
(* makes it return the identifier of the first match, and one create       *)
(* request was sent for the entity.                                        *)
(***************************************************************************)
\* The request the step has sent, with its answer
Sent == log'[Len(log')]

\* The requests of the log of the given kinds for the given name
RequestsFor(l, kinds, name) == { n \in DOMAIN l : l[n].kind \in kinds /\ l[n].name = name }

C16_FoundNothing == ~(Sent.status = 200 /\ Sent.found)

C16_Found == Sent.status = 200 /\ Sent.found /\ ~Sent.fault

C16_ResolveAfterCreate ==
    [][ /\ pc = "ensure_client_resolve" =>
              /\ log[Len(log)].kind = "client_post"
              /\ log[Len(log)].status \in {201, 204}
              /\ Sent.kind = "client_get"
              /\ Sent.name = Client.client_id
              /\ C16_FoundNothing =>
                    /\ pc' = "failed"
                    /\ local'.client_uuid = local.client_uuid
                    /\ local.client_uuid[local.which] = 0
              /\ C16_Found =>
                    /\ pc' \in { "resolve_client_id", "get_client_secret" }
                    /\ local'.client_uuid[local.which]
                         = SelectFirst(kc.clients, Client.client_id)[1].id
                    /\ local'.client_uuid[local.which] # 0
                    /\ Cardinality(RequestsFor(log', { "client_post" }, Client.client_id)) = 1
        /\ pc = "ensure_user_lookup" =>
              /\ log[Len(log)].kind = "user_post"
              /\ log[Len(log)].status \in {201, 204}
              /\ Sent.kind = "user_get"
              /\ Sent.name = User.username
              /\ C16_FoundNothing =>
                    /\ pc' = "failed"
                    /\ local'.user_id = local.user_id
              /\ C16_Found =>
                    /\ pc' = "set_user_password"
                    /\ local'.user_id = SelectFirst(kc.users, User.username)[1].id
                    /\ local'.user_id # 0
                    /\ Cardinality(RequestsFor(log', { "user_post" }, User.username)) = 1 ]_vars

\* the create was answered 201 and the lookup after it with an empty list
C16_Witness ==
    /\ pc = "failed"
    /\ Len(log) >= 2
    /\ log[Len(log)].kind \in { "client_get", "user_get" }
    /\ log[Len(log)].status = 200
    /\ ~log[Len(log)].found
    /\ log[Len(log) - 1].kind \in { "client_post", "user_post" }
    /\ log[Len(log) - 1].status = 201

(***************************************************************************)
(* C17: when the create request of ensure_roles for the k-th role gets a   *)
(* status other than 201, 204 and 409, the run is aborted there: the roles *)
(* created for the positions before k exist in the realm, no role at a     *)
(* position after k is looked up or created, and no role of the realm is   *)
(* ever removed.                                                           *)
(***************************************************************************)
C17_CreateFailed(n) ==
    log[n].kind = "role_post" /\ log[n].status \notin {201, 204, 409}

C17_CreatedBefore(n, role) ==
    \E m \in 1..(n - 1) :
        log[m].kind = "role_post" /\ log[m].name = role /\ log[m].status \in {201, 204}

C17_EarlierRolesStay ==
    \A n \in DOMAIN log :
        C17_CreateFailed(n) =>
            /\ pc = "failed"
            /\ n = Len(log)
            /\ \A j \in DOMAIN DEFAULT_ROLES :
                  /\ (j < RoleIndex(log[n].name) /\ C17_CreatedBefore(n, DEFAULT_ROLES[j]))
                        => RoleExists(kc, DEFAULT_ROLES[j])
                  /\ j > RoleIndex(log[n].name)
                        => RequestsFor(log, { "role_get", "role_post" }, DEFAULT_ROLES[j]) = {}

C17_NoRollback ==
    [][ \A n \in DOMAIN kc.roles : RoleExists(kc', kc.roles[n]) ]_vars

C17_PartialRoles == []C17_EarlierRolesStay /\ C17_NoRollback

\* the first role was created, the create of the second failed, and the script
\* was run again
C17_Witness ==
    /\ run = 2
    /\ Previous.outcome = "failed"
    /\ Len(Previous.log) >= 2
    /\ Previous.log[Len(Previous.log)].kind = "role_post"
    /\ Previous.log[Len(Previous.log)].name = DEFAULT_ROLES[2]
    /\ Previous.log[Len(Previous.log)].status = 500
    /\ \E m \in DOMAIN Previous.log :
          /\ Previous.log[m].kind = "role_post"
          /\ Previous.log[m].name = DEFAULT_ROLES[1]
          /\ Previous.log[m].status = 201
    /\ RoleExists(kc, DEFAULT_ROLES[1])
    /\ ~RoleExists(Previous.kc, DEFAULT_ROLES[2])

(***************************************************************************)
(* C18: when none of the requested roles exists in the realm (the request  *)
(* may be empty), assign_realm_roles sends no role-mapping request, leaves *)
(* the service and so the role mappings of the user as they are, raises    *)
(* nothing, and run_bootstrap goes on with its next step.                  *)
(***************************************************************************)
C18_NoneExists == \A r \in Range(local.roles_list) : ~RoleExists(kc, r)

\* What run_bootstrap does after this call of assign_realm_roles
C18_NextStep ==
    IF local.assign_for = "user" /\ local.u < Len(local.users) THEN "ensure_user"
    ELSE IF local.assign_for = "user" /\ args.assign_service_account_role # << >>
    THEN "assign_service_account_role"
    ELSE "summary"

C18_NothingToAssign ==
    [][ /\ (pc = "get_role_representations" /\ C18_NoneExists) =>
              /\ Sent.kind = "role_rep_get"
              /\ pc' \in { "get_role_representations", "assign_realm_roles" }
              /\ local'.role_reps = << >>
              /\ kc' = kc
        /\ (pc = "assign_realm_roles" /\ C18_NoneExists) =>
              /\ log' = log
              /\ kc' = kc
              /\ pc' = C18_NextStep
              /\ printed'[Len(printed')] = Line("no_valid_roles", Username, << >>, 0) ]_vars

\* carol asked for the role ghost only, and so did the service account
C18_Witness ==
    /\ pc = "done"
    /\ args.user = << CarolSpec >>
    /\ args.assign_service_account_role = Ghost
    /\ Entries(log, { "role_rep_get" }) # {}
    /\ Entries(log, { "mapping_post" }) = {}
    /\ Account(kc, << "carol" >>).roles = {}
    /\ Account(kc, << "carol" >>).password = << "pw" >>

(***************************************************************************)
(* C19: when the lookup of the service-account user of the backend client  *)
(* gets a status other than 200 or an answer without id,                   *)
(* assign_service_account_role raises and no role-mapping request follows; *)
(* when the user is found, the one role is handed to assign_realm_roles    *)
(* for that user: an existing role is mapped, a role that does not exist   *)
(* is skipped with a warning and without error.                            *)
(***************************************************************************)
C19_NotFound(e) == e.status # 200 \/ e.fault

C19_Lookup ==
    [][ pc = "assign_service_account_role" =>
            /\ Sent.kind = "service_account_get"
            /\ Sent.id = local.client_uuid["backend"]
            /\ C19_NotFound(Sent) => pc' = "failed"
            /\ ~C19_NotFound(Sent) =>
                  /\ pc' = "get_role_representations"
                  /\ local'.assign_for = "sa"
                  /\ local'.roles_list = << args.assign_service_account_role >>
                  /\ local'.user_id = Account(kc, ServiceAccountName(BackendClientId)).id ]_vars

C19_Assignment ==
    \A n \in DOMAIN log :
        log[n].kind = "service_account_get" =>
            LET role  == args.assign_service_account_role
                after == { m \in DOMAIN log : m > n }
                sa    == Account(kc, ServiceAccountName(BackendClientId))
            IN  /\ C19_NotFound(log[n]) => pc = "failed" /\ after = {}
                /\ ~RoleExists(kc, role) =>
                      /\ \A m \in after : log[m].kind = "role_rep_get" /\ log[m].name = role
                      /\ ~C19_NotFound(log[n]) => pc # "failed"
                      /\ role \notin sa.roles
                      /\ pc = "done" =>
                            \E k \in DOMAIN printed :
                                printed[k] = Line("skipped", << "service-account" >>,
                                                  << role >>, 0)
                /\ (RoleExists(kc, role) /\ pc = "done" /\ \A m \in after : ~log[m].fault) =>
                      /\ role \in sa.roles
                      /\ log[Len(log)].kind = "mapping_post"
                      /\ log[Len(log)].id = sa.id
                      /\ log[Len(log)].body = << role >>

C19_ServiceAccountRole == []C19_Assignment /\ C19_Lookup

\* the first run was aborted by the lookup of the service-account user; in the
\* second the user was found and the role ghost skipped
C19_Witness ==
    /\ run = 2
    /\ Previous.outcome = "failed"
    /\ Previous.log[Len(Previous.log)].kind = "service_account_get"
    /\ pc = "done"
    /\ args.assign_service_account_role = Ghost
    /\ \E k \in DOMAIN printed :
          printed[k] = Line("skipped", << "service-account" >>, << Ghost >>, 0)
    /\ Entries(log, { "service_account_get" }) # {}

(***************************************************************************)
(* C20: when a user of the requested name exists, ensure_user returns the  *)
(* id of that user and sends no create request; the run changes nothing of *)
(* an account that existed at its start but the password, with a reset     *)
(* that is not temporary, and the role mappings: username, id, enabled and *)
(* emailVerified stay as they were.                                        *)
(***************************************************************************)
C20_Exists == SelectFirst(kc.users, User.username) # << >>

C20_Attributes(x) ==
    [key |-> x.key, id |-> x.id, enabled |-> x.enabled, emailVerified |-> x.emailVerified]

C20_Lookup ==
    [][ (pc = "ensure_user" /\ C20_Exists) =>
            /\ Sent.kind = "user_get"
            /\ Sent.name = User.username
            /\ pc' = "set_user_password"
            /\ local'.user_id = Account(kc, User.username).id
            /\ kc' = kc ]_vars

C20_AccountKept ==
    /\ \A n \in DOMAIN kc0.users :
          /\ n \in DOMAIN kc.users
          /\ C20_Attributes(kc.users[n]) = C20_Attributes(kc0.users[n])
          /\ kc0.users[n].roles \subseteq kc.users[n].roles
          /\ RequestsFor(log, { "user_post" }, kc0.users[n].key) = {}
          /\ \A m \in DOMAIN log :
                log[m].id = kc0.users[n].id =>
                    log[m].kind \in { "password_put", "mapping_post" }
    /\ \A m \in DOMAIN log :
          log[m].kind = "password_put" => ~log[m].body[1].temporary

C20_ExistingUser == []C20_AccountKept /\ C20_Lookup

\* the account admin was there, disabled and with another password
C20_Witness ==
    /\ run = 1
    /\ kc0 = PreUser
    /\ args.user = << AdminSpec >>
    /\ pc = "done"
    /\ ~Account(kc, << "admin" >>).enabled
    /\ Account(kc, << "admin" >>).id = Account(kc0, << "admin" >>).id
    /\ Account(kc, << "admin" >>).password = << "admin" >>
    /\ Account(kc, << "admin" >>).roles = { StatecheckerAdmin }
    /\ Entries(log, { "user_post" }) = {}

(***************************************************************************)
(* C21: the summary is printed only at the end of a run in which no step   *)
(* raised and every step of run_bootstrap was gone through, and the secret *)
(* it shows is the non-empty secret the service holds for the backend      *)
(* client this run resolved; when the secret request gets an error or an   *)
(* answer without value, the run fails there, before any request for a     *)
(* user, and the accounts are as at the start of the run.                  *)
(***************************************************************************)
UserKinds == { "user_get", "user_post", "password_put", "role_rep_get", "mapping_post" }

C21_Printed(lines) == { k \in DOMAIN lines : lines[k].what = "summary" }

C21_SummaryOfSuccess ==
    /\ pc = "failed" => C21_Printed(printed) = {}
    /\ \A r \in DOMAIN past :
          C21_Printed(past[r].printed) # {} => past[r].outcome = "done"
    /\ \A k \in C21_Printed(printed) :
          /\ k = Len(printed)
          /\ pc = "done"
          /\ C15_Complete(log)
          /\ printed[k].secret # 0
          /\ \E c \in ClientById(kc, local.client_uuid["backend"]) :
                /\ c.key = BackendClientId
                /\ c.secret = printed[k].secret
          /\ \E n \in DOMAIN log :
                /\ log[n].kind = "secret_get"
                /\ log[n].id = local.client_uuid["backend"]
                /\ log[n].status = 200
                /\ ~log[n].fault

C21_NoSecretNoUser ==
    \A n \in DOMAIN log :
        (log[n].kind = "secret_get" /\ (log[n].status # 200 \/ log[n].fault)) =>
            /\ pc = "failed"
            /\ n = Len(log)
            /\ Entries(log, UserKinds) = {}
            /\ \A x \in Range(kc.users) :
                  x \in Range(kc0.users) \/ x.key = ServiceAccountName(BackendClientId)

C21_SummaryAndSecret == C21_SummaryOfSuccess /\ C21_NoSecretNoUser

\* the first run got a secret answer without value; the second printed the
\* summary
C21_Witness ==
    /\ run = 2
    /\ Previous.outcome = "failed"
    /\ Previous.log[Len(Previous.log)].kind = "secret_get"
    /\ Previous.log[Len(Previous.log)].status = 200
    /\ C21_Printed(Previous.printed) = {}
    /\ pc = "done"
    /\ C21_Printed(printed) # {}

(***************************************************************************)
(* C22: whatever the service answers, a run ends, in success or failure,   *)
(* after a number of requests bounded by the command line: every step      *)
(* sends its request once and never again, the token is requested once,    *)
(* as the first request, and every later request carries that token.       *)
(***************************************************************************)
\* How often the username is in the list of user specs
C22_Specs(users, username) ==
    Cardinality({ u \in DOMAIN users : users[u].username = username })

\* The role lookups of assign_realm_roles for the users and the service account
C22_RoleLookups(users) ==
    LET RECURSIVE Sum(_)
        Sum(u) == IF u = 0 THEN 0 ELSE Len(users[u].roles) + Sum(u - 1)
    IN  Sum(Len(users))
        + (IF args.assign_service_account_role # << >> THEN 1 ELSE 0)

C22_Times(kinds) == Cardinality(Entries(log, kinds))

C22_TimesFor(kinds, name) == Cardinality(RequestsFor(log, kinds, name))

\* The requests of a run when every step sends all its requests
C22_MostRequests(users) ==
    1 + 2 + 2 * Len(DEFAULT_ROLES) + 3 + 3 + 1
    + 4 * Len(users) + C22_RoleLookups(users) + Len(users) + 2

C22_OncePerStepFor(users) ==
    /\ C22_Times({ "token" }) <= 1
    /\ C22_Times({ "realm_get" }) <= 1
    /\ C22_Times({ "realm_post" }) <= 1
    /\ \A k \in DOMAIN DEFAULT_ROLES :
          /\ C22_TimesFor({ "role_get" }, DEFAULT_ROLES[k]) <= 1
          /\ C22_TimesFor({ "role_post" }, DEFAULT_ROLES[k]) <= 1
    /\ \A w \in DOMAIN build_client_specs :
          /\ C22_TimesFor({ "client_post" }, build_client_specs[w].client_id) <= 1
          /\ C22_TimesFor({ "client_get" }, build_client_specs[w].client_id)
               <= 1 + C22_TimesFor({ "client_post" }, build_client_specs[w].client_id)
    /\ C22_Times({ "secret_get" }) <= 1
    /\ \A u \in DOMAIN users :
          /\ C22_TimesFor({ "user_post" }, users[u].username)
               <= C22_Specs(users, users[u].username)
          /\ C22_TimesFor({ "user_get" }, users[u].username)
               <= C22_Specs(users, users[u].username)
                  + C22_TimesFor({ "user_post" }, users[u].username)
    /\ C22_Times({ "password_put" }) <= Len(users)
    /\ C22_Times({ "service_account_get" }) <= 1
    /\ C22_Times({ "role_rep_get" }) <= C22_RoleLookups(users)
    /\ C22_Times({ "mapping_post" }) <= Len(users) + 1
    /\ Len(log) <= C22_MostRequests(users)
    /\ \A n \in DOMAIN log :
          n < Len(log) =>
              Request(log[n].kind, log[n].name, log[n].id, log[n].body)
                # Request(log[n + 1].kind, log[n + 1].name, log[n + 1].id, log[n + 1].body)

C22_OncePerStep == log # << >> => C22_OncePerStepFor(local.users)

C22_OneToken ==
    \A n \in DOMAIN log :
        /\ (log[n].kind = "token") <=> (n = 1)
        /\ n > 1 => log[n].token # 0 /\ log[n].token = log[Len(log)].token
        /\ n > 1 => log[n].token = local.token

C22_RunEnds ==
    /\ [](C22_OncePerStep /\ C22_OneToken)
    /\ (pc = "main") ~> (pc \in { "done", "failed" })

\* a run that got a faulty answer has ended, and so has the run after it
C22_Witness ==
    /\ run = 2
    /\ ~NoFault(Previous.log)
    /\ Len(Previous.log) >= 2
    /\ pc = "done"
    /\ Len(log) >= 2

====
